---------------------------- MODULE Spec2Model ----------------------------
(* Model of scripts/benchmark-model-loading.py: main() runs the standard   *)
(* loading test (unless --skip-standard) and then the Run:ai streamer test.*)
(* Each test spawns a vLLM server (subprocess.Popen), polls its /health    *)
(* endpoint (wait_for_health), tears the process down (terminate, wait,    *)
(* kill) and returns the elapsed time or None.  main() then prints the     *)
(* results and chooses the exit code.                                      *)
(*                                                                         *)
(* Time is counted in ticks, tps ticks to the second: time.time() is the   *)
(* variable now.  Whole runs are explored with one tick per second.        *)
(*                                                                         *)
(* scripts/seed-models.py is modelled as well: seeders that read the names *)
(* in the models table and insert the ADDITIONAL_MODELS that are missing.  *)
(* An Optional[float] is a sequence: <<>> is None, <<x>> is the value x.   *)
EXTENDS Integers, Sequences, FiniteSets, TLC

VARIABLES
    model_path,     \* args.model_path
    tps,            \* ticks per second of the clock
    skip_standard,  \* args.skip_standard
    timeout,        \* wait_for_health's timeout parameter
    pc,             \* position of the (single) thread of control
    cur,            \* the test function being executed: "standard" / "runai" / "none"
    now,            \* time.time()
    run_start_time, \* start_time of test_*_loading (set just before Popen)
    start_time,     \* start_time of wait_for_health
    outcome,        \* outcome of the health request of the current iteration
    elapsed,        \* elapsed: wait_for_health's return value, held by test_*_loading
    standard_time,  \* main's standard_time
    runai_time,     \* main's runai_time
    proc,           \* state of each test's server process
    spawn_calls,    \* per test: number of subprocess.Popen calls
    terminate_calls,\* per test: number of proc.terminate() calls
    wait_result,    \* per test: how proc.wait(timeout=10) ended
    wait_time,      \* per test: seconds spent in proc.wait
    kill_calls,     \* per test: number of proc.kill() calls
    ended,          \* per test: "no", "returned" (a value) or "raised" (an exception)
    returned,       \* per test: the value it returned
    report,         \* what the results section printed
    exit_code,      \* the process's exit status
    \* scripts/seed-models.py
    models,         \* the committed rows of the models table, in insertion order
    seed_pc,        \* per seeder: its position in main() / seed_models()
    existing_models,\* per seeder: the names its SELECT returned
    new_models,     \* per seeder: the ADDITIONAL_MODELS it decided to insert
    pending,        \* per seeder: rows inserted in its open transaction
    before,         \* per seeder: the table when its run started
    after_commit,   \* per seeder: its run started after some run had committed
    inserted,       \* per seeder: rows its current run committed
    runs,           \* per seeder: number of runs started
    commits         \* number of committed runs

seedVars == <<models, seed_pc, existing_models, new_models, pending, before,
              after_commit, inserted, runs, commits>>

vars == <<model_path, tps, seedVars, skip_standard, timeout, pc, cur, now, run_start_time, start_time,
          outcome, elapsed, standard_time, runai_time, proc, spawn_calls,
          terminate_calls, wait_result, wait_time, kill_calls, ended,
          returned, report, exit_code>>

-----------------------------------------------------------------------------
(* Bounds of the model *)

MaxTimeout == 31      \* the largest timeout explored
SmallTimeout == 3     \* whole runs explore timeouts 1..SmallTimeout and MaxTimeout
MaxSpawnDelay == 1    \* seconds subprocess.Popen may take to return
FineTicks == 2        \* ticks per second when wait_for_health is timed finely
MaxModels == 2        \* how many of the ADDITIONAL_MODELS are modelled
MaxRuns == 2          \* runs of seed-models.py per seeder

(* Program constants *)

POLL_INTERVAL == 1    \* time.sleep(1)
REQUEST_TIMEOUT == 1  \* requests.get(url, timeout=1)
WAIT_TIMEOUT == 10    \* proc.wait(timeout=10)
HTTP_OK == 200        \* resp.status_code == 200
ACCEPT_THRESHOLD == 30 \* runai_time < 30
LAUNCHES_PER_DAY == 100
SECONDS_PER_MINUTE == 60

Strategies == {"standard", "runai"}

\* args.model_path: argparse accepts any string, the empty one included
ModelPaths == {"", "s3://models/meta-llama/Llama-3-8B-Instruct"}

\* two seed-models.py processes connected to the same database
Seeders == {1, 2}

\* the names of ADDITIONAL_MODELS (lines 19-128), in order
AllAdditionalNames ==
    << "meta-llama/Llama-3-8b-chat-hf",
       "meta-llama/Llama-3-70b-chat-hf",
       "mistralai/Mistral-7B-Instruct-v0.3",
       "mistralai/Mixtral-8x7B-Instruct-v0.1",
       "Qwen/Qwen2.5-7B-Instruct",
       "Qwen/Qwen2.5-72B-Instruct",
       "google/gemma-2-9b-it",
       "google/gemma-2-27b-it",
       "deepseek-ai/DeepSeek-Coder-V2-Instruct" >>

\* the first MaxModels of them stand for the list
ADDITIONAL_MODELS == SubSeq(AllAdditionalNames, 1, MaxModels)

\* a model that is in the table and not in ADDITIONAL_MODELS
OtherName == "other/model"

\* a row of the models table: its name, and whether its other columns are
\* the ones seed-models.py writes ("seed") or different ones ("custom")
Row(n, d) == [name |-> n, data |-> d]

NamesOf(table) == {table[i].name : i \in DOMAIN table}

\* the tables the database may hold when a seeder is first run: any rows,
\* at most one per name (the unique constraint ON CONFLICT (name) relies on)
TableNames == ADDITIONAL_MODELS \o <<OtherName>>

RECURSIVE TableFrom(_, _)
TableFrom(f, i) ==
    IF i > Len(TableNames) THEN <<>>
    ELSE (IF f[TableNames[i]] = "absent" THEN <<>>
          ELSE <<Row(TableNames[i], f[TableNames[i]])>>) \o TableFrom(f, i + 1)

InitialTables ==
    {TableFrom(f, 1) : f \in [NamesOf([i \in DOMAIN TableNames |-> Row(TableNames[i], "seed")])
                                -> {"absent", "seed", "custom"}]}

None == <<>>
Some(x) == <<x>>

\* HTTP status codes the health endpoint may answer with
StatusCodes == {200, 204, 503}

Response(s) == [kind |-> "response", status |-> s]
Raised(e) == [kind |-> e, status |-> 0]
NoRequest == [kind |-> "none", status |-> 0]

\* the exceptions requests.get may raise: the two the code catches, and one
\* RequestException that is neither (requests.TooManyRedirects)
CaughtErrors == {"ConnectionError", "Timeout"}
OtherErrors == {"TooManyRedirects"}

Outcomes == {Response(s) : s \in StatusCodes}
              \cup {Raised(e) : e \in CaughtErrors \cup OtherErrors}

\* wait_for_health's timeout parameter (the callers leave it at its default,
\* 600; the model explores small values and one above ACCEPT_THRESHOLD)
Timeouts == (1..SmallTimeout) \cup {MaxTimeout}

\* how long the process takes to exit, when it exits during proc.wait
ExitDelays == {0, WAIT_TIMEOUT - 1}

-----------------------------------------------------------------------------
(* Pure helpers *)

\* Python truthiness of an Optional[float]: None and 0.0 are falsy
Truthy(o) == o # None /\ o[1] # 0

\* variant of IsSuccess: any 2xx status is read as success
IsSuccess_Any2xx(o) == o.kind = "response" /\ o.status >= 200 /\ o.status < 300

\* line 36: if resp.status_code == 200
IsSuccess(o) == o.kind = "response" /\ o.status = HTTP_OK

\* line 40: except (requests.ConnectionError, requests.Timeout)
IsCaught(o) == o.kind \in CaughtErrors

\* line 33: while time.time() - start_time < timeout
LoopCondition(t, s, limit) == t - s < limit

Abs(x) == IF x < 0 THEN -x ELSE x

RECURSIVE GCD(_, _)
GCD(a, b) == IF b = 0 THEN a ELSE GCD(b, a % b)

\* the exact quotient a / b (b > 0) as a fraction in lowest terms
Ratio(a, b) ==
    LET g == GCD(Abs(a), b)
    IN  <<a \div g, b \div g>>

-----------------------------------------------------------------------------
\* seed-models.py has not been started and its table is empty
SeedNotStarted ==
    /\ models = <<>>
    /\ seed_pc = [s \in Seeders |-> "idle"]
    /\ existing_models = [s \in Seeders |-> {}]
    /\ new_models = [s \in Seeders |-> <<>>]
    /\ pending = [s \in Seeders |-> <<>>]
    /\ before = [s \in Seeders |-> <<>>]
    /\ after_commit = [s \in Seeders |-> FALSE]
    /\ inserted = [s \in Seeders |-> <<>>]
    /\ runs = [s \in Seeders |-> 0]
    /\ commits = 0

Init ==
    /\ SeedNotStarted
    /\ model_path \in ModelPaths
    /\ tps = 1
    /\ skip_standard \in BOOLEAN
    /\ timeout \in Timeouts
    /\ pc = "main"
    /\ cur = "none"
    /\ now = 0
    /\ run_start_time = 0
    /\ start_time = 0
    /\ outcome = NoRequest
    /\ elapsed = None
    /\ standard_time = None
    /\ runai_time = None
    /\ proc = [s \in Strategies |-> "none"]
    /\ spawn_calls = [s \in Strategies |-> 0]
    /\ terminate_calls = [s \in Strategies |-> 0]
    /\ wait_result = [s \in Strategies |-> "none"]
    /\ wait_time = [s \in Strategies |-> 0]
    /\ kill_calls = [s \in Strategies |-> 0]
    /\ ended = [s \in Strategies |-> "no"]
    /\ returned = [s \in Strategies |-> None]
    /\ report = [printed |-> FALSE, standard |-> None, runai |-> None,
                 speedup |-> None, time_saved |-> None, per_day |-> None]
    /\ exit_code = None

-----------------------------------------------------------------------------
(* Helpers of the actions *)

Bump(f) == [f EXCEPT ![cur] = @ + 1]

\* An exception leaves the test function and, uncaught in main(), ends the
\* interpreter with a traceback and exit status 1.
Uncaught ==
    /\ ended' = [ended EXCEPT ![cur] = "raised"]
    /\ pc' = "aborted"
    /\ exit_code' = Some(1)

\* lines 36-39: elapsed = time.time() - start_time; return elapsed
ElapsedAt(t, s) == Some(t - s)

\* lines 44-45: return None
TimedOutValue(t, s) == None

\* variant of AfterRequest: a success is not acted on, polling goes on
AfterRequest_KeepPolling(o) ==
    IF o.kind = "response" \/ o.kind \in CaughtErrors THEN "wfh_sleep"
    ELSE "aborted"

\* where control goes after a health request with outcome o (lines 35-42)
AfterRequest(o) ==
    IF IsSuccess(o) THEN "terminate"
    ELSE IF o.kind = "response" \/ IsCaught(o) THEN "wfh_sleep"
    ELSE "aborted"

\* variant of AfterWait: proc.kill() is called however the wait ended
AfterWait_AlwaysKill(result) == "kill"

\* lines 78-81: proc.kill() is called in the handler of TimeoutExpired only
AfterWait(result) == IF result = "expired" THEN "kill" ELSE "return"

\* lines 194-196: the comparison is computed when both times are truthy
Compared(st, rt) == Truthy(st) /\ Truthy(rt)

\* variant of Results: the time saved is printed whenever the standard time
\* is truthy, a missing Run:ai time counting as 0
Results_SavedWithoutCandidate(st, rt) ==
    [printed |-> TRUE,
     standard |-> IF Truthy(st) THEN st ELSE None,
     runai |-> IF Truthy(rt) THEN rt ELSE None,
     speedup |-> IF Compared(st, rt) THEN Some(Ratio(st[1], rt[1])) ELSE None,
     time_saved |-> IF Truthy(st)
                    THEN Some(st[1] - (IF rt = None THEN 0 ELSE rt[1]))
                    ELSE None,
     per_day |-> IF Compared(st, rt)
                 THEN Some(Ratio((st[1] - rt[1]) * LAUNCHES_PER_DAY,
                                 SECONDS_PER_MINUTE * tps))
                 ELSE None]

\* lines 184-203: the results section
Results(st, rt) ==
    [printed |-> TRUE,
     standard |-> IF Truthy(st) THEN st ELSE None,
     runai |-> IF Truthy(rt) THEN rt ELSE None,
     speedup |-> IF Compared(st, rt) THEN Some(Ratio(st[1], rt[1])) ELSE None,
     time_saved |-> IF Compared(st, rt) THEN Some(st[1] - rt[1]) ELSE None,
     per_day |-> IF Compared(st, rt)
                 THEN Some(Ratio((st[1] - rt[1]) * LAUNCHES_PER_DAY,
                                 SECONDS_PER_MINUTE * tps))
                 ELSE None]

\* lines 215-218: if runai_time and runai_time < 30: exit 0, else exit 1
ExitCode(rt) == IF Truthy(rt) /\ rt[1] < ACCEPT_THRESHOLD * tps THEN 0 ELSE 1

-----------------------------------------------------------------------------
(* main(), lines 167-177: the two test functions are called in sequence *)

CallStandard ==
    /\ pc = "main"
    /\ ~skip_standard
    /\ cur' = "standard"
    /\ pc' = "popen"
    /\ UNCHANGED <<model_path, tps, seedVars, skip_standard, timeout, now, run_start_time, start_time,
                   outcome, elapsed, standard_time, runai_time, proc,
                   spawn_calls, terminate_calls, wait_result, wait_time,
                   kill_calls, ended, returned, report, exit_code>>

CallRunai ==
    /\ \/ pc = "main" /\ skip_standard
       \/ pc = "after_standard"
    /\ cur' = "runai"
    /\ pc' = "popen"
    /\ outcome' = NoRequest
    /\ elapsed' = None
    /\ UNCHANGED <<model_path, tps, seedVars, skip_standard, timeout, now, run_start_time, start_time,
                   standard_time, runai_time, proc, spawn_calls,
                   terminate_calls, wait_result, wait_time, kill_calls, ended,
                   returned, report, exit_code>>

(* test_standard_loading / test_runai_loading, lines 65-71 and 112-118:    *)
(* start_time = time.time(); proc = subprocess.Popen(...).  Popen raises   *)
(* OSError when the program cannot be executed.                            *)
Popen ==
    /\ pc = "popen"
    /\ run_start_time' = now
    /\ spawn_calls' = Bump(spawn_calls)
    /\ \/ /\ \E d \in 0..(MaxSpawnDelay * tps) : now' = now + d
          /\ proc' = [proc EXCEPT ![cur] = "running"]
          /\ pc' = "wfh_start"
          /\ UNCHANGED <<ended, exit_code>>
       \/ /\ Uncaught
          /\ UNCHANGED <<now, proc>>
    /\ UNCHANGED <<model_path, tps, seedVars, skip_standard, timeout, cur, start_time, outcome, elapsed,
                   standard_time, runai_time, terminate_calls, wait_result,
                   wait_time, kill_calls, returned, report>>

(* wait_for_health, line 29 *)
WfhStart ==
    /\ pc = "wfh_start"
    /\ start_time' = now
    /\ pc' = "wfh_loop"
    /\ UNCHANGED <<model_path, tps, seedVars, skip_standard, timeout, cur, now, run_start_time, outcome,
                   elapsed, standard_time, runai_time, proc, spawn_calls,
                   terminate_calls, wait_result, wait_time, kill_calls, ended,
                   returned, report, exit_code>>

(* wait_for_health, line 33 and lines 44-45 *)
LoopCheck ==
    /\ pc = "wfh_loop"
    /\ IF LoopCondition(now, start_time, timeout * tps)
       THEN /\ pc' = "wfh_request"
            /\ UNCHANGED elapsed
       ELSE /\ elapsed' = TimedOutValue(now, start_time)
            /\ pc' = "terminate"
    /\ UNCHANGED <<model_path, tps, seedVars, skip_standard, timeout, cur, now, run_start_time,
                   start_time, outcome, standard_time, runai_time, proc,
                   spawn_calls, terminate_calls, wait_result, wait_time,
                   kill_calls, ended, returned, report, exit_code>>

(* wait_for_health, lines 34-41: one health request *)
Request ==
    /\ pc = "wfh_request"
    /\ \E o \in Outcomes, d \in 0..(REQUEST_TIMEOUT * tps) :
        /\ now' = now + d
        /\ outcome' = o
        /\ elapsed' = IF IsSuccess(o) THEN ElapsedAt(now', start_time) ELSE elapsed
        /\ IF AfterRequest(o) = "aborted"
           THEN Uncaught
           ELSE /\ pc' = AfterRequest(o)
                /\ UNCHANGED <<ended, exit_code>>
    /\ UNCHANGED <<model_path, tps, seedVars, skip_standard, timeout, cur, run_start_time, start_time,
                   standard_time, runai_time, proc, spawn_calls,
                   terminate_calls, wait_result, wait_time, kill_calls,
                   returned, report>>

(* variant of Sleep: the loop goes round without any time passing *)
Sleep_NoDelay ==
    /\ pc = "wfh_sleep"
    /\ outcome' = NoRequest
    /\ pc' = "wfh_loop"
    /\ UNCHANGED <<model_path, tps, seedVars, skip_standard, timeout, cur, now, run_start_time,
                   start_time, elapsed, standard_time, runai_time, proc,
                   spawn_calls, terminate_calls, wait_result, wait_time,
                   kill_calls, ended, returned, report, exit_code>>

(* variant of Sleep: the pause between two polls lasts two intervals *)
Sleep_TwoIntervals ==
    /\ pc = "wfh_sleep"
    /\ now' = now + 2 * POLL_INTERVAL * tps
    /\ outcome' = NoRequest
    /\ pc' = "wfh_loop"
    /\ UNCHANGED <<model_path, tps, seedVars, skip_standard, timeout, cur,
                   run_start_time, start_time, elapsed, standard_time,
                   runai_time, proc, spawn_calls, terminate_calls,
                   wait_result, wait_time, kill_calls, ended, returned,
                   report, exit_code>>

(* wait_for_health, line 42: time.sleep(1) *)
Sleep ==
    /\ pc = "wfh_sleep"
    /\ now' = now + POLL_INTERVAL * tps
    /\ outcome' = NoRequest
    /\ pc' = "wfh_loop"
    /\ UNCHANGED <<model_path, tps, seedVars, skip_standard, timeout, cur, run_start_time, start_time,
                   elapsed, standard_time, runai_time, proc, spawn_calls,
                   terminate_calls, wait_result, wait_time, kill_calls, ended,
                   returned, report, exit_code>>

(* lines 77 and 124: proc.terminate() *)
Terminate ==
    /\ pc = "terminate"
    /\ terminate_calls' = Bump(terminate_calls)
    /\ \/ /\ pc' = "wait"
          /\ UNCHANGED <<ended, exit_code>>
       \/ Uncaught
    /\ UNCHANGED <<model_path, tps, seedVars, skip_standard, timeout, cur, now, run_start_time,
                   start_time, outcome, elapsed, standard_time, runai_time,
                   proc, spawn_calls, wait_result, wait_time, kill_calls,
                   returned, report>>

(* lines 78-80 and 125-127: proc.wait(timeout=10) returns when the process *)
(* has exited, raises TimeoutExpired when it has not exited after 10       *)
(* seconds, and may fail with another error.                               *)
Wait ==
    /\ pc = "wait"
    /\ \/ /\ proc[cur] = "exited"
          /\ wait_result' = [wait_result EXCEPT ![cur] = "exited"]
          /\ pc' = AfterWait("exited")
          /\ UNCHANGED <<now, proc, wait_time, ended, exit_code>>
       \/ /\ proc[cur] = "running"
          /\ \E d \in ExitDelays :
              /\ now' = now + d * tps
              /\ wait_time' = [wait_time EXCEPT ![cur] = d]
          /\ proc' = [proc EXCEPT ![cur] = "exited"]
          /\ wait_result' = [wait_result EXCEPT ![cur] = "exited"]
          /\ pc' = AfterWait("exited")
          /\ UNCHANGED <<ended, exit_code>>
       \/ /\ proc[cur] = "running"
          /\ now' = now + WAIT_TIMEOUT * tps
          /\ wait_time' = [wait_time EXCEPT ![cur] = WAIT_TIMEOUT]
          /\ wait_result' = [wait_result EXCEPT ![cur] = "expired"]
          /\ pc' = AfterWait("expired")
          /\ UNCHANGED <<proc, ended, exit_code>>
       \/ /\ wait_result' = [wait_result EXCEPT ![cur] = "error"]
          /\ Uncaught
          /\ UNCHANGED <<now, proc, wait_time>>
    /\ UNCHANGED <<model_path, tps, seedVars, skip_standard, timeout, cur, run_start_time, start_time,
                   outcome, elapsed, standard_time, runai_time, spawn_calls,
                   terminate_calls, kill_calls, returned, report>>

(* lines 81 and 128: proc.kill(); the code does not wait for the exit *)
Kill ==
    /\ pc = "kill"
    /\ kill_calls' = Bump(kill_calls)
    /\ \/ /\ pc' = "return"
          /\ UNCHANGED <<ended, exit_code>>
       \/ Uncaught
    /\ UNCHANGED <<model_path, tps, seedVars, skip_standard, timeout, cur, now, run_start_time,
                   start_time, outcome, elapsed, standard_time, runai_time,
                   proc, spawn_calls, terminate_calls, wait_result, wait_time,
                   returned, report>>

(* lines 83-88 and 130-135: return elapsed; main() stores it (172, 177) *)
Return ==
    /\ pc = "return"
    /\ ended' = [ended EXCEPT ![cur] = "returned"]
    /\ returned' = [returned EXCEPT ![cur] = elapsed]
    /\ IF cur = "standard"
       THEN /\ standard_time' = elapsed
            /\ pc' = "after_standard"
            /\ UNCHANGED runai_time
       ELSE /\ runai_time' = elapsed
            /\ pc' = "results"
            /\ UNCHANGED standard_time
    /\ cur' = "none"
    /\ UNCHANGED <<model_path, tps, seedVars, skip_standard, timeout, now, run_start_time, start_time,
                   outcome, elapsed, proc, spawn_calls, terminate_calls,
                   wait_result, wait_time, kill_calls, report, exit_code>>

(* main(), lines 179-212 *)
PrintResults ==
    /\ pc = "results"
    /\ report' = Results(standard_time, runai_time)
    /\ pc' = "exit"
    /\ UNCHANGED <<model_path, tps, seedVars, skip_standard, timeout, cur, now, run_start_time,
                   start_time, outcome, elapsed, standard_time, runai_time,
                   proc, spawn_calls, terminate_calls, wait_result, wait_time,
                   kill_calls, ended, returned, exit_code>>

(* main(), lines 214-218 *)
Exit ==
    /\ pc = "exit"
    /\ exit_code' = Some(ExitCode(runai_time))
    /\ pc' = "done"
    /\ UNCHANGED <<model_path, tps, seedVars, skip_standard, timeout, cur, now, run_start_time,
                   start_time, outcome, elapsed, standard_time, runai_time,
                   proc, spawn_calls, terminate_calls, wait_result, wait_time,
                   kill_calls, ended, returned, report>>

(* The environment: a server process exits (it crashed, or a signal it was *)
(* sent took effect).                                                      *)
ProcExits ==
    /\ \E s \in Strategies :
        /\ proc[s] = "running"
        /\ proc' = [proc EXCEPT ![s] = "exited"]
    /\ UNCHANGED <<model_path, tps, seedVars, skip_standard, timeout, pc, cur, now, run_start_time,
                   start_time, outcome, elapsed, standard_time, runai_time,
                   spawn_calls, terminate_calls, wait_result, wait_time,
                   kill_calls, ended, returned, report, exit_code>>

-----------------------------------------------------------------------------
(* scripts/seed-models.py *)

benchVars == <<model_path, tps, skip_standard, timeout, pc, cur, now,
               run_start_time, start_time, outcome, elapsed, standard_time,
               runai_time, proc, spawn_calls, terminate_calls, wait_result,
               wait_time, kill_calls, ended, returned, report, exit_code>>

\* line 157: new_models = [m for m in ADDITIONAL_MODELS
\*                        if m["name"] not in existing_models]
NewModels(existing) == SelectSeq(ADDITIONAL_MODELS, LAMBDA n : n \notin existing)

\* variant of RowsToInsert: a plain INSERT into a table without the unique
\* constraint, every row of the statement is added
RowsToInsert_NoConflictCheck(names, table) ==
    [i \in DOMAIN names |-> Row(names[i], "seed")]

\* lines 166-185: INSERT ... VALUES ... ON CONFLICT (name) DO NOTHING adds
\* the rows whose name is not in the table and skips the others
RowsToInsert(names, table) ==
    LET fresh == SelectSeq(names, LAMBDA n : n \notin NamesOf(table))
    IN  [i \in DOMAIN fresh |-> Row(fresh[i], "seed")]

\* a row of the statement is waiting for another open transaction that has
\* inserted the same name and not yet committed or rolled back
Blocked(s, names) ==
    \E o \in Seeders \ {s} :
        NamesOf(pending[o]) \cap {names[i] : i \in DOMAIN names} # {}

(* main(), lines 227-230: a run of the script begins, conn = connect_db() *)
Connect(s) ==
    /\ seed_pc[s] \in {"idle", "done", "failed"}
    /\ runs[s] < MaxRuns
    /\ runs' = [runs EXCEPT ![s] = @ + 1]
    /\ inserted' = [inserted EXCEPT ![s] = <<>>]
    /\ seed_pc' = [seed_pc EXCEPT ![s] = "select"]
    /\ UNCHANGED <<models, existing_models, new_models, pending, before,
                   after_commit, commits>>
    /\ UNCHANGED benchVars

(* seed_models, lines 149-163: SELECT name FROM models, filter, and return *)
(* when nothing is missing                                                 *)
SelectExisting(s) ==
    /\ seed_pc[s] = "select"
    /\ existing_models' = [existing_models EXCEPT ![s] = NamesOf(models)]
    /\ new_models' = [new_models EXCEPT ![s] = NewModels(NamesOf(models))]
    /\ before' = [before EXCEPT ![s] = models]
    /\ after_commit' = [after_commit EXCEPT ![s] = (commits > 0)]
    /\ seed_pc' = [seed_pc EXCEPT ![s] =
                     IF NewModels(NamesOf(models)) = <<>> THEN "list" ELSE "insert"]
    /\ UNCHANGED <<models, pending, inserted, runs, commits>>
    /\ UNCHANGED benchVars

(* seed_models, lines 166-185: execute_values(cur, insert_query, values);  *)
(* a database error raises and main() rolls back (lines 240-243)           *)
InsertNew(s) ==
    /\ seed_pc[s] = "insert"
    /\ \/ /\ ~Blocked(s, new_models[s])
          /\ pending' = [pending EXCEPT ![s] = RowsToInsert(new_models[s], models)]
          /\ seed_pc' = [seed_pc EXCEPT ![s] = "commit"]
       \/ /\ pending' = [pending EXCEPT ![s] = <<>>]
          /\ seed_pc' = [seed_pc EXCEPT ![s] = "failed"]
    /\ UNCHANGED <<models, existing_models, new_models, before, after_commit,
                   inserted, runs, commits>>
    /\ UNCHANGED benchVars

(* seed_models, line 186: conn.commit() *)
Commit(s) ==
    /\ seed_pc[s] = "commit"
    /\ models' = models \o pending[s]
    /\ inserted' = [inserted EXCEPT ![s] = pending[s]]
    /\ pending' = [pending EXCEPT ![s] = <<>>]
    /\ commits' = commits + 1
    /\ seed_pc' = [seed_pc EXCEPT ![s] = "list"]
    /\ UNCHANGED <<existing_models, new_models, before, after_commit, runs>>
    /\ UNCHANGED benchVars

(* main(), lines 237-246: list_all_models(conn) reads the table, then      *)
(* conn.close()                                                            *)
ListAndClose(s) ==
    /\ seed_pc[s] = "list"
    /\ seed_pc' = [seed_pc EXCEPT ![s] = "done"]
    /\ UNCHANGED <<models, existing_models, new_models, pending, before,
                   after_commit, inserted, runs, commits>>
    /\ UNCHANGED benchVars

\* the benchmark script is not running
BenchNotStarted ==
    /\ model_path = ""
    /\ tps = 1
    /\ skip_standard = FALSE
    /\ timeout = 1
    /\ pc = "main"
    /\ cur = "none"
    /\ now = 0
    /\ run_start_time = 0
    /\ start_time = 0
    /\ outcome = NoRequest
    /\ elapsed = None
    /\ standard_time = None
    /\ runai_time = None
    /\ proc = [s \in Strategies |-> "none"]
    /\ spawn_calls = [s \in Strategies |-> 0]
    /\ terminate_calls = [s \in Strategies |-> 0]
    /\ wait_result = [s \in Strategies |-> "none"]
    /\ wait_time = [s \in Strategies |-> 0]
    /\ kill_calls = [s \in Strategies |-> 0]
    /\ ended = [s \in Strategies |-> "no"]
    /\ returned = [s \in Strategies |-> None]
    /\ report = [printed |-> FALSE, standard |-> None, runai |-> None,
                 speedup |-> None, time_saved |-> None, per_day |-> None]
    /\ exit_code = None

InitSeed ==
    /\ BenchNotStarted
    /\ models \in InitialTables
    /\ seed_pc = [s \in Seeders |-> "idle"]
    /\ existing_models = [s \in Seeders |-> {}]
    /\ new_models = [s \in Seeders |-> <<>>]
    /\ pending = [s \in Seeders |-> <<>>]
    /\ before = [s \in Seeders |-> <<>>]
    /\ after_commit = [s \in Seeders |-> FALSE]
    /\ inserted = [s \in Seeders |-> <<>>]
    /\ runs = [s \in Seeders |-> 0]
    /\ commits = 0

NextSeed ==
    \/ \E s \in Seeders : Connect(s)
    \/ \E s \in Seeders : SelectExisting(s)
    \/ \E s \in Seeders : InsertNew(s)
    \/ \E s \in Seeders : Commit(s)
    \/ \E s \in Seeders : ListAndClose(s)

SeedSpec == InitSeed /\ [][NextSeed]_vars

-----------------------------------------------------------------------------
Next ==
    \/ CallStandard
    \/ CallRunai
    \/ Popen
    \/ WfhStart
    \/ LoopCheck
    \/ Request
    \/ Sleep
    \/ Terminate
    \/ Wait
    \/ Kill
    \/ Return
    \/ PrintResults
    \/ Exit
    \/ ProcExits

Spec == Init /\ [][Next]_vars

(* wait_for_health on its own: entered right after the standard test's     *)
(* Popen returned, for every timeout 1..MaxTimeout.  The script is one     *)
(* sequential thread, every health request is bounded by its timeout and   *)
(* every sleep ends, so an enabled step is eventually taken (WF).          *)
InitWait ==
    /\ SeedNotStarted
    /\ model_path \in ModelPaths
    /\ tps = 1
    /\ skip_standard = FALSE
    /\ timeout \in 1..MaxTimeout
    /\ pc = "wfh_start"
    /\ cur = "standard"
    /\ now \in 0..MaxSpawnDelay
    /\ run_start_time = 0
    /\ start_time = 0
    /\ outcome = NoRequest
    /\ elapsed = None
    /\ standard_time = None
    /\ runai_time = None
    /\ proc = [s \in Strategies |-> IF s = "standard" THEN "running" ELSE "none"]
    /\ spawn_calls = [s \in Strategies |-> IF s = "standard" THEN 1 ELSE 0]
    /\ terminate_calls = [s \in Strategies |-> 0]
    /\ wait_result = [s \in Strategies |-> "none"]
    /\ wait_time = [s \in Strategies |-> 0]
    /\ kill_calls = [s \in Strategies |-> 0]
    /\ ended = [s \in Strategies |-> "no"]
    /\ returned = [s \in Strategies |-> None]
    /\ report = [printed |-> FALSE, standard |-> None, runai |-> None,
                 speedup |-> None, time_saved |-> None, per_day |-> None]
    /\ exit_code = None

NextWait ==
    \/ WfhStart
    \/ LoopCheck
    \/ Request
    \/ Sleep

FairWait == InitWait /\ [][NextWait]_vars /\ WF_vars(NextWait)

(* wait_for_health timed in fractions of a second: it may be entered, and  *)
(* a health request may return, between two whole seconds.                 *)
InitFine ==
    /\ SeedNotStarted
    /\ model_path \in ModelPaths
    /\ tps = FineTicks
    /\ skip_standard = FALSE
    /\ timeout \in 1..MaxTimeout
    /\ pc = "wfh_start"
    /\ cur = "standard"
    /\ now \in 0..(MaxSpawnDelay * tps)
    /\ run_start_time = 0
    /\ start_time = 0
    /\ outcome = NoRequest
    /\ elapsed = None
    /\ standard_time = None
    /\ runai_time = None
    /\ proc = [s \in Strategies |-> IF s = "standard" THEN "running" ELSE "none"]
    /\ spawn_calls = [s \in Strategies |-> IF s = "standard" THEN 1 ELSE 0]
    /\ terminate_calls = [s \in Strategies |-> 0]
    /\ wait_result = [s \in Strategies |-> "none"]
    /\ wait_time = [s \in Strategies |-> 0]
    /\ kill_calls = [s \in Strategies |-> 0]
    /\ ended = [s \in Strategies |-> "no"]
    /\ returned = [s \in Strategies |-> None]
    /\ report = [printed |-> FALSE, standard |-> None, runai |-> None,
                 speedup |-> None, time_saved |-> None, per_day |-> None]
    /\ exit_code = None

FineWait == InitFine /\ [][NextWait]_vars

-----------------------------------------------------------------------------
(* Vocabulary of the properties *)

PollingPcs == {"wfh_start", "wfh_loop", "wfh_request", "wfh_sleep"}

\* the answer is an HTTP response with status 200
IsOk(o) == o.kind = "response" /\ o.status = 200

\* the answer is an HTTP response with a 2xx status
Is2xx(o) == o.kind = "response" /\ o.status >= 200 /\ o.status < 300

\* the answer is one the probe reads as "not ready yet"
IsNotReady(o, success) ==
    \/ o.kind = "response" /\ ~success
    \/ o.kind \in {"ConnectionError", "Timeout"}

\* Popen was called for s and raised: no process was created
LaunchFailed(s) == spawn_calls[s] = 1 /\ proc[s] = "none"

-----------------------------------------------------------------------------
(* C1: every run of a test function that has ended, by returning or by     *)
(* raising, has attempted teardown (proc.terminate) exactly once.          *)
C1_TeardownExactlyOnce ==
    \A s \in Strategies : ended[s] # "no" => terminate_calls[s] = 1

(* C2: a launch failure is not raised out of the run and does not abort    *)
(* main: the run returns None, and once main has stopped after a failed    *)
(* baseline launch the candidate was run, the results were printed and the *)
(* exit-code decision was reached.                                         *)
C2_FailureCaptured ==
    /\ \A s \in Strategies :
         LaunchFailed(s) => /\ ended[s] = "returned"
                            /\ returned[s] = None
    /\ (pc \in {"done", "aborted"} /\ LaunchFailed("standard"))
         => /\ spawn_calls["runai"] = 1
            /\ report.printed
            /\ pc = "done"

(* C3: wait_for_health always leaves its polling loop, and when it leaves  *)
(* it without a poll having returned success it returns None.              *)
C3_TimesOutWithNone ==
    /\ <>(pc \notin PollingPcs)
    /\ []((pc = "terminate" /\ ~IsOk(outcome)) => elapsed = None)

C3_Witness ==
    /\ pc = "terminate"
    /\ ~IsOk(outcome)
    /\ timeout = MaxTimeout
    /\ now - start_time >= timeout
    /\ elapsed = None

(* C4 as stated: a response counts as success iff its status is 2xx: a 2xx *)
(* response ends polling with an elapsed time, and any other response, a   *)
(* connection error or a request timeout leaves the run polling.           *)
C4_Any2xxIsSuccess ==
    /\ Is2xx(outcome) => (pc \notin PollingPcs /\ elapsed # None)
    /\ IsNotReady(outcome, Is2xx(outcome)) => pc = "wfh_sleep"

(* C4 amended: a response counts as success iff its status is exactly 200: *)
(* a 200 response ends polling with an elapsed time, and any other         *)
(* response (other 2xx codes included), a connection error or a request    *)
(* timeout leaves the run polling.                                         *)
C4_Only200IsSuccess ==
    /\ IsOk(outcome) => (pc \notin PollingPcs /\ elapsed # None)
    /\ IsNotReady(outcome, IsOk(outcome)) => pc = "wfh_sleep"

C4_Witness ==
    /\ pc = "wfh_sleep"
    /\ outcome = Response(204)
    /\ now - start_time < timeout

(* C5: the first poll that returns success ends polling at once with the   *)
(* elapsed time measured at that poll, whatever failed before it; within   *)
(* the same run no further health request is made and the elapsed time     *)
(* does not change.                                                        *)
C5_FirstSuccessWins ==
    /\ [](IsOk(outcome) =>
            /\ pc \notin PollingPcs
            /\ elapsed # None
            /\ pc = "terminate" => elapsed = Some(now - start_time))
    /\ [][(IsOk(outcome) /\ cur' = cur) =>
            (outcome' = outcome /\ elapsed' = elapsed /\ pc' \notin PollingPcs)]_vars

\* success on a later poll: a failed poll and a sleep came first
C5_Witness ==
    /\ pc = "terminate"
    /\ IsOk(outcome)
    /\ elapsed = Some(2 * POLL_INTERVAL)
    /\ timeout > 2

(* C6: teardown is terminate, then a wait of at most 10 seconds, then kill *)
(* only when that wait expired: kill is never called before terminate,     *)
(* never when the process exited within the wait, and at most once.        *)
C6_TeardownOrder ==
    \A s \in Strategies :
        /\ wait_result[s] # "none" => terminate_calls[s] = 1
        /\ wait_time[s] <= WAIT_TIMEOUT
        /\ kill_calls[s] <= 1
        /\ kill_calls[s] = 1 =>
             /\ terminate_calls[s] = 1
             /\ wait_result[s] = "expired"
             /\ wait_time[s] = WAIT_TIMEOUT
        /\ wait_result[s] = "exited" => kill_calls[s] = 0
        /\ (cur = s /\ pc = "kill") => wait_result[s] = "expired"

C6_Witness ==
    /\ kill_calls["standard"] = 1
    /\ wait_result["standard"] = "expired"
    /\ wait_result["runai"] = "exited"
    /\ wait_time["runai"] = WAIT_TIMEOUT - 1
    /\ ended["runai"] = "returned"

(* C7: once teardown has begun, no failure of terminate, wait or kill      *)
(* leaves the run as an exception: the run returns, and returns the        *)
(* elapsed value the readiness wait produced.                              *)
C7_TeardownFailureSwallowed ==
    \A s \in Strategies :
        (terminate_calls[s] > 0 /\ ended[s] # "no")
            => ended[s] = "returned"

C9_ComparisonComputed ==
    (report.printed /\ standard_time # None /\ runai_time # None) =>
        /\ report.time_saved = Some(standard_time[1] - runai_time[1])
        /\ report.per_day = Some(Ratio((standard_time[1] - runai_time[1]) * 100, 60))
        /\ runai_time[1] # 0 =>
             report.speedup = Some(Ratio(standard_time[1], runai_time[1]))

(* C10: the exit code is 0 iff the candidate test returned an elapsed time *)
(* below 30 seconds, and 1 otherwise.                                      *)
C10_ExitCode ==
    exit_code # None =>
        /\ exit_code \in {Some(0), Some(1)}
        /\ exit_code = Some(0) <=>
             /\ ended["runai"] = "returned"
             /\ returned["runai"] # None
             /\ returned["runai"][1] < 30

(* C11: at most one server process is alive at any time, and the           *)
(* candidate's process is spawned only after the baseline's has exited.    *)
C11_OneProcessAlive ==
    /\ Cardinality({s \in Strategies : proc[s] = "running"}) <= 1
    /\ spawn_calls["runai"] > 0 => proc["standard"] # "running"

(* C12: with an empty model path the program halts with a non-zero exit    *)
(* status before any server process is spawned and before any health       *)
(* request is made.                                                        *)
C12_EmptyPathFailsFast ==
    model_path = "" =>
        /\ \A s \in Strategies : spawn_calls[s] = 0 /\ proc[s] = "none"
        /\ pc \notin PollingPcs
        /\ exit_code # Some(0)

(* C13: the elapsed time of a ready run is not negative and is the time    *)
(* from the start of the server process (the start_time taken just before  *)
(* Popen) to the first successful readiness check.                         *)
C13_ElapsedFromSpawn ==
    (pc = "terminate" /\ IsOk(outcome)) =>
        /\ elapsed # None
        /\ elapsed[1] >= 0
        /\ elapsed = Some(now - run_start_time)

\* wait_for_health has returned None: the loop condition failed
TimedOut == pc = "terminate" /\ ~IsOk(outcome) /\ elapsed = None

(* C14 as stated: for a timeout T above the polling interval P, a wait     *)
(* that times out returns no later than T + P after it started.            *)
C14_ReturnsWithinTPlusP ==
    (TimedOut /\ timeout > POLL_INTERVAL) =>
        now - start_time <= (timeout + POLL_INTERVAL) * tps

(* C14 amended: for a timeout T above the polling interval P, a wait that  *)
(* times out returns less than T + R + P after it started, R being the     *)
(* per-request timeout: the last iteration begins before T and lasts one   *)
(* request and one sleep.                                                  *)
C14_ReturnsWithinTPlusRPlusP ==
    (TimedOut /\ timeout > POLL_INTERVAL) =>
        /\ now - start_time >= timeout * tps
        /\ now - start_time < (timeout + REQUEST_TIMEOUT + POLL_INTERVAL) * tps

\* an iteration begun just before T ends after T + P
C14_Witness ==
    /\ TimedOut
    /\ timeout = MaxTimeout
    /\ now - start_time > (timeout + POLL_INTERVAL) * tps

\* table a is the beginning of table b, row for row
IsPrefix(a, b) == Len(a) <= Len(b) /\ SubSeq(b, 1, Len(a)) = a

AllSeeded == \A i \in DOMAIN ADDITIONAL_MODELS : ADDITIONAL_MODELS[i] \in NamesOf(models)

(* C15: whatever the table held and however the seeders' runs interleave,  *)
(* no name occurs twice in the models table, the rows that were there when *)
(* a run started are still there unchanged, every name of                  *)
(* ADDITIONAL_MODELS is present once a run has committed, and a run        *)
(* started after a committed run inserts nothing.                          *)
C15_SeedIdempotent ==
    /\ \A i, j \in DOMAIN models : models[i].name = models[j].name => i = j
    /\ \A s \in Seeders : IsPrefix(before[s], models)
    /\ commits > 0 => AllSeeded
    /\ \A s \in Seeders :
         after_commit[s] => /\ pending[s] = <<>>
                            /\ inserted[s] = <<>>
                            /\ seed_pc[s] \notin {"insert", "commit"}

\* two seeders both read the names before either inserted; both committed
C15_Witness ==
    /\ \A s \in Seeders : seed_pc[s] = "done" /\ runs[s] = 1
    /\ new_models[1] # <<>>
    /\ new_models[2] = new_models[1]
    /\ inserted[1] # <<>>
    /\ inserted[2] = <<>>
    /\ commits = 2
    /\ \E i \in DOMAIN models : models[i].data = "custom"

=============================================================================
